---- MODULE Spec2Model ----
(***************************************************************************)
(* Detection metrics (Ap, Map, MetricsScore) of awml_evaluation and the    *)
(* pass/fail classifier (PassFailResult) of perception_eval.               *)
(*                                                                         *)
(* Python floats are IEEE-754 binary64 values and float arithmetic rounds   *)
(* to nearest, ties to even (FAdd, FSub, FMul, FDiv, FGt).  Exact rationals *)
(* <<numerator, denominator>> serve only as the reference that float       *)
(* results are compared with.  Python lists are TLA+ sequences, so the     *)
(* Python index i is the TLA+ index i + 1.                                 *)
(*                                                                         *)
(* Ap, Map, MetricsScore and PassFailResult share no state, so each has a   *)
(* specification of its own: SpecAp, SpecMap, SpecMetrics, SpecPassFail,   *)
(* and SpecTpFp for PassFailResult.get_tp_fp_object_results called on its  *)
(* own.  SpecOrder constructs two Ap objects from two orders of the same   *)
(* records, and SpecRepeat calls MetricsScore.evaluate frame after frame   *)
(* on frames of one label.  A specification leaves the variables of the    *)
(* other classes as they start.                                            *)
(***************************************************************************)
EXTENDS Integers, Sequences, FiniteSets, TLC

\* ------------------------------------------------------------------------
\* Bounds of the model
\* ------------------------------------------------------------------------
\* longest filtered record list handed to one Ap scoring run
MaxRecords == 4
\* largest ground-truth count of one Ap scoring run
MaxGt == 5
\* longest object-result list and ground-truth list of one Map construction
MaxObj == 2
\* longest object-result list and ground-truth list of one MetricsScore frame
MaxFrameObj == 1
\* longest target label list
MaxLabels == 2
\* most MetricsScore.evaluate calls on one instance
MaxCalls == 2
\* longest object-result list of one PassFailResult frame
MaxPfObj == 2

\* ------------------------------------------------------------------------
\* Exact rational arithmetic, the reference for float results
\* ------------------------------------------------------------------------
RECURSIVE Gcd(_, _)
Gcd(a, b) == IF b = 0 THEN a ELSE Gcd(b, a % b)

Abs(x) == IF x < 0 THEN -x ELSE x

\* n / d for an integer n and a positive integer d
Frac(n, d) ==
    LET g == Gcd(Abs(n), d)
    IN  <<n \div g, d \div g>>

Zero == <<0, 1>>

RAdd(a, b) == Frac(a[1] * b[2] + b[1] * a[2], a[2] * b[2])
RSub(a, b) == Frac(a[1] * b[2] - b[1] * a[2], a[2] * b[2])
RMul(a, b) == Frac(a[1] * b[1], a[2] * b[2])
RGt(a, b) == a[1] * b[2] > b[1] * a[2]
RGe(a, b) == a[1] * b[2] >= b[1] * a[2]

\* ------------------------------------------------------------------------
\* Natural numbers of any size: sequences of limbs, least significant first,
\* without a most significant zero limb; <<>> is 0
\* ------------------------------------------------------------------------
LimbBits == 14
Base == 2^LimbBits

RECURSIVE BTrim(_)
BTrim(x) ==
    IF x = <<>> THEN x
    ELSE IF x[Len(x)] = 0 THEN BTrim(SubSeq(x, 1, Len(x) - 1)) ELSE x

RECURSIVE BFromInt(_)
BFromInt(n) == IF n = 0 THEN <<>> ELSE <<n % Base>> \o BFromInt(n \div Base)

Limb(x, i) == IF i <= Len(x) THEN x[i] ELSE 0

RECURSIVE BAddFrom(_, _, _, _)
BAddFrom(a, b, i, carry) ==
    IF i > Len(a) /\ i > Len(b)
    THEN IF carry = 0 THEN <<>> ELSE <<carry>>
    ELSE <<(Limb(a, i) + Limb(b, i) + carry) % Base>>
         \o BAddFrom(a, b, i + 1, (Limb(a, i) + Limb(b, i) + carry) \div Base)

BAdd(a, b) == BAddFrom(a, b, 1, 0)

\* a - b for a >= b
RECURSIVE BSubFrom(_, _, _, _)
BSubFrom(a, b, i, borrow) ==
    IF i > Len(a) THEN <<>>
    ELSE IF a[i] - Limb(b, i) - borrow < 0
         THEN <<a[i] - Limb(b, i) - borrow + Base>> \o BSubFrom(a, b, i + 1, 1)
         ELSE <<a[i] - Limb(b, i) - borrow>> \o BSubFrom(a, b, i + 1, 0)

BSub(a, b) == BTrim(BSubFrom(a, b, 1, 0))

\* -1, 0 or 1 as a is below, equal to or above b
RECURSIVE BCmpAt(_, _, _)
BCmpAt(a, b, i) ==
    IF i = 0 THEN 0
    ELSE IF a[i] > b[i] THEN 1
    ELSE IF a[i] < b[i] THEN -1
    ELSE BCmpAt(a, b, i - 1)

BCmp(a, b) ==
    IF Len(a) > Len(b) THEN 1
    ELSE IF Len(a) < Len(b) THEN -1
    ELSE BCmpAt(a, b, Len(a))

\* a * k for 0 <= k < 2^16
RECURSIVE BMulSmallFrom(_, _, _, _)
BMulSmallFrom(a, k, i, carry) ==
    IF i > Len(a) THEN BFromInt(carry)
    ELSE <<(a[i] * k + carry) % Base>>
         \o BMulSmallFrom(a, k, i + 1, (a[i] * k + carry) \div Base)

BMulSmall(a, k) == IF k = 0 THEN <<>> ELSE BMulSmallFrom(a, k, 1, 0)

BTimesBase(x) == IF x = <<>> THEN <<>> ELSE <<0>> \o x

RECURSIVE BMul(_, _)
BMul(a, b) ==
    IF b = <<>> THEN <<>>
    ELSE BAdd(BMulSmall(a, b[1]), BTimesBase(BMul(a, Tail(b))))

\* quotient and remainder of a by d, for 0 < d < 2^16
RECURSIVE BDivSmallAt(_, _, _, _, _)
BDivSmallAt(a, d, i, r, q) ==
    IF i = 0 THEN [q |-> BTrim(q), r |-> r]
    ELSE BDivSmallAt(a, d, i - 1, (r * Base + a[i]) % d,
                     <<(r * Base + a[i]) \div d>> \o q)

BDivSmall(a, d) == BDivSmallAt(a, d, Len(a), 0, <<>>)

\* a * 2^k and floor(a / 2^k)
BShl(a, k) ==
    IF a = <<>> \/ k = 0 THEN a
    ELSE [i \in 1..(k \div LimbBits) |-> 0] \o BMulSmall(a, 2^(k % LimbBits))

BShr(a, k) ==
    IF k = 0 THEN a
    ELSE IF k \div LimbBits >= Len(a) THEN <<>>
    ELSE BDivSmall(SubSeq(a, (k \div LimbBits) + 1, Len(a)), 2^(k % LimbBits)).q

RECURSIVE IntBitLen(_)
IntBitLen(n) == IF n = 0 THEN 0 ELSE 1 + IntBitLen(n \div 2)

RECURSIVE IntTrailingZeros(_)
IntTrailingZeros(n) == IF n % 2 = 1 THEN 0 ELSE 1 + IntTrailingZeros(n \div 2)

BBitLen(a) ==
    IF a = <<>> THEN 0 ELSE (Len(a) - 1) * LimbBits + IntBitLen(a[Len(a)])

\* bit i of a, bit 0 the least significant
BBit(a, i) == (Limb(a, (i \div LimbBits) + 1) \div 2^(i % LimbBits)) % 2

\* the k least significant bits of a are all 0
BLowZero(a, k) ==
    /\ \A i \in 1..(k \div LimbBits) : Limb(a, i) = 0
    /\ Limb(a, (k \div LimbBits) + 1) % 2^(k % LimbBits) = 0

\* the number of 0 bits below the least significant 1 bit of a # 0
RECURSIVE BTrailingZeros(_)
BTrailingZeros(a) ==
    IF a[1] = 0 THEN LimbBits + BTrailingZeros(Tail(a))
    ELSE IntTrailingZeros(a[1])

\* ------------------------------------------------------------------------
\* Python float: IEEE-754 binary64, round to nearest, ties to even.
\* A float is [neg, m, e] with value (-1)^neg * m * 2^e, m odd or 0 (then
\* e = 0).  The exponent is not bounded: no value of the model comes near the
\* overflow or the subnormal range.
\* ------------------------------------------------------------------------
Precision == 53

FZero == [neg |-> FALSE, m |-> <<>>, e |-> 0]

\* the float of value (-1)^neg * n * 2^e, for n of at most Precision bits
FCanon(neg, n, e) ==
    IF n = <<>> THEN [neg |-> neg, m |-> <<>>, e |-> 0]
    ELSE CHOOSE f \in {[neg |-> neg, m |-> BShr(n, z), e |-> e + z] :
                          z \in {BTrailingZeros(n)}} : TRUE

\* The float nearest to (-1)^neg * (n + t) * 2^e, where 0 < t < 1 if sticky and
\* t = 0 if not; with sticky, n has more than Precision + 1 bits.
FRoundBits(neg, n, e, sticky, s) ==
    IF s <= 0 THEN FCanon(neg, n, e)
    ELSE IF /\ BBit(n, s - 1) = 1
            /\ (sticky \/ ~BLowZero(n, s - 1) \/ BBit(n, s) = 1)
         THEN FCanon(neg, BAdd(BShr(n, s), <<1>>), e + s)
         ELSE FCanon(neg, BShr(n, s), e + s)

FRound(neg, n, e, sticky) ==
    CHOOSE f \in {FRoundBits(neg, v, e, sticky, BBitLen(v) - Precision) :
                     v \in {n}} : TRUE

\* float(n) of an int 0 <= n < 2^31
float(n) == FCanon(FALSE, BFromInt(n), 0)

FNeg(a) == [a EXCEPT !.neg = ~a.neg]

\* -1, 0 or 1 as |a| is below, equal to or above |b|
FCmpAbs(a, b) ==
    IF a.m = <<>> \/ b.m = <<>>
    THEN (IF a.m # <<>> THEN 1 ELSE IF b.m # <<>> THEN -1 ELSE 0)
    ELSE IF BBitLen(a.m) + a.e > BBitLen(b.m) + b.e THEN 1
    ELSE IF BBitLen(a.m) + a.e < BBitLen(b.m) + b.e THEN -1
    ELSE IF a.e >= b.e THEN BCmp(BShl(a.m, a.e - b.e), b.m)
    ELSE BCmp(a.m, BShl(b.m, b.e - a.e))

\* a > b
FGt(a, b) ==
    IF a.m = <<>> /\ b.m = <<>> THEN FALSE
    ELSE IF a.neg # b.neg THEN b.neg
    ELSE IF a.neg THEN FCmpAbs(a, b) = -1
    ELSE FCmpAbs(a, b) = 1

\* |a| + |b| and |a| - |b| (for |a| >= |b|), exactly, as n * 2^e
AbsSum(a, b) ==
    IF a.e >= b.e
    THEN [n |-> BAdd(BShl(a.m, a.e - b.e), b.m), e |-> b.e]
    ELSE [n |-> BAdd(a.m, BShl(b.m, b.e - a.e)), e |-> a.e]

AbsDiff(a, b) ==
    IF a.e >= b.e
    THEN [n |-> BSub(BShl(a.m, a.e - b.e), b.m), e |-> b.e]
    ELSE [n |-> BSub(a.m, BShl(b.m, b.e - a.e)), e |-> a.e]

\* a + b
FAddValues(a, b) ==
    IF a.m = <<>> /\ b.m = <<>> THEN [FZero EXCEPT !.neg = a.neg /\ b.neg]
    ELSE IF a.m = <<>> THEN b
    ELSE IF b.m = <<>> THEN a
    ELSE IF a.neg = b.neg
    THEN CHOOSE f \in {FRound(a.neg, x.n, x.e, FALSE) : x \in {AbsSum(a, b)}} : TRUE
    ELSE CHOOSE f \in
             {IF c = 0 THEN FZero
              ELSE IF c = 1
              THEN CHOOSE g \in {FRound(a.neg, x.n, x.e, FALSE) :
                                    x \in {AbsDiff(a, b)}} : TRUE
              ELSE CHOOSE g \in {FRound(b.neg, x.n, x.e, FALSE) :
                                    x \in {AbsDiff(b, a)}} : TRUE :
                 c \in {FCmpAbs(a, b)}} : TRUE

FAdd(a, b) == CHOOSE f \in {FAddValues(x, y) : x \in {a}, y \in {b}} : TRUE

\* a - b
FSub(a, b) == FAdd(a, FNeg(b))

\* a * b
FMulValues(a, b) ==
    IF a.m = <<>> \/ b.m = <<>> THEN [FZero EXCEPT !.neg = (a.neg # b.neg)]
    ELSE IF a.m = <<1>> THEN [b EXCEPT !.neg = (a.neg # b.neg), !.e = a.e + b.e]
    ELSE IF b.m = <<1>> THEN [a EXCEPT !.neg = (a.neg # b.neg), !.e = a.e + b.e]
    ELSE
    CHOOSE f \in {FRound(a.neg # b.neg, n, a.e + b.e, FALSE) :
                     n \in {BMul(a.m, b.m)}} : TRUE

FMul(a, b) == CHOOSE f \in {FMulValues(x, y) : x \in {a}, y \in {b}} : TRUE

\* the bits a numerator is moved up before an inexact division, so that the
\* quotient by a divisor below 2^16 has more than Precision + 1 bits
DivShift == 5 * LimbBits

\* a / d for a float a and an int 0 < d < 2^16: d = odd * 2^z
FDivOdd(a, odd, z) ==
    IF a.m = <<>> THEN a
    ELSE IF odd = 1 THEN [a EXCEPT !.e = a.e - z]
    ELSE CHOOSE f \in {FRound(a.neg, x.q, a.e - z - DivShift, x.r # 0) :
                          x \in {BDivSmall(BShl(a.m, DivShift), odd)}} : TRUE

FDivValues(a, d) ==
    CHOOSE f \in {FDivOdd(a, d \div 2^z, z) : z \in {IntTrailingZeros(d)}} : TRUE

FDiv(a, d) == CHOOSE f \in {FDivValues(x, d) : x \in {a}} : TRUE

\* ------------------------------------------------------------------------
\* Sequences up to a length
\* ------------------------------------------------------------------------
SeqUpTo(S, n) == UNION {[1..k -> S] : k \in 0..n}

\* A filtered object result as Ap._calculate_tp_fp reads it: only the
\* is_label_correct attribute is used.
ObjectResult == [is_label_correct : BOOLEAN]

Flags(object_results) ==
    [i \in 1..Len(object_results) |-> object_results[i].is_label_correct]

\* ------------------------------------------------------------------------
\* Ap._calculate_tp_fp
\* ------------------------------------------------------------------------
\* the loop "for i in range(1, len(object_results))", entered at Python
\* index i - 1
RECURSIVE tp_fp_loop(_, _, _)
tp_fp_loop(object_results, lists, i) ==
    IF i > Len(object_results) THEN lists
    ELSE LET tp_i == IF object_results[i].is_label_correct
                     THEN lists.tp_list[i - 1] + 1
                     ELSE lists.tp_list[i - 1]
         IN  tp_fp_loop(object_results,
                        [tp_list |-> [lists.tp_list EXCEPT ![i] = tp_i],
                         fp_list |-> [lists.fp_list EXCEPT ![i] = i - tp_i]],
                        i + 1)

\* the same method with the loop entered one index late
calculate_tp_fp_late(object_results, ground_truth_objects_num) ==
    IF Len(object_results) = 0 /\ ground_truth_objects_num # 0
    THEN [raised |-> FALSE, warned |-> TRUE, tp_list |-> <<>>, fp_list |-> <<>>]
    ELSE IF Len(object_results) = 0
    THEN [raised |-> TRUE, warned |-> FALSE, tp_list |-> <<>>, fp_list |-> <<>>]
    ELSE LET zeros == [i \in 1..Len(object_results) |-> 0]
             first == IF object_results[1].is_label_correct
                      THEN [tp_list |-> [zeros EXCEPT ![1] = 1],
                            fp_list |-> [zeros EXCEPT ![1] = 0]]
                      ELSE [tp_list |-> [zeros EXCEPT ![1] = 0],
                            fp_list |-> [zeros EXCEPT ![1] = 1]]
             done == tp_fp_loop(object_results, first, 3)
         IN  [raised |-> FALSE, warned |-> FALSE,
              tp_list |-> done.tp_list, fp_list |-> done.fp_list]

\* the same method without the early return for an empty record list
calculate_tp_fp_no_guard(object_results, ground_truth_objects_num) ==
    IF Len(object_results) = 0
    THEN [raised |-> TRUE, warned |-> FALSE, tp_list |-> <<>>, fp_list |-> <<>>]
    ELSE LET zeros == [i \in 1..Len(object_results) |-> 0]
             first == IF object_results[1].is_label_correct
                      THEN [tp_list |-> [zeros EXCEPT ![1] = 1],
                            fp_list |-> [zeros EXCEPT ![1] = 0]]
                      ELSE [tp_list |-> [zeros EXCEPT ![1] = 0],
                            fp_list |-> [zeros EXCEPT ![1] = 1]]
             done == tp_fp_loop(object_results, first, 2)
         IN  [raised |-> FALSE, warned |-> FALSE,
              tp_list |-> done.tp_list, fp_list |-> done.fp_list]

\* raised: object_results[0] on an empty list is an IndexError (reached when
\* the list is empty and ground_truth_objects_num is 0).
\* warned: logger.warning was called.
calculate_tp_fp(object_results, ground_truth_objects_num) ==
    IF Len(object_results) = 0 /\ ground_truth_objects_num # 0
    THEN [raised |-> FALSE, warned |-> TRUE, tp_list |-> <<>>, fp_list |-> <<>>]
    ELSE IF Len(object_results) = 0
    THEN [raised |-> TRUE, warned |-> FALSE, tp_list |-> <<>>, fp_list |-> <<>>]
    ELSE LET zeros == [i \in 1..Len(object_results) |-> 0]
             first == IF object_results[1].is_label_correct
                      THEN [tp_list |-> [zeros EXCEPT ![1] = 1],
                            fp_list |-> [zeros EXCEPT ![1] = 0]]
                      ELSE [tp_list |-> [zeros EXCEPT ![1] = 0],
                            fp_list |-> [zeros EXCEPT ![1] = 1]]
             done == tp_fp_loop(object_results, first, 2)
         IN  [raised |-> FALSE, warned |-> FALSE,
              tp_list |-> done.tp_list, fp_list |-> done.fp_list]

\* ------------------------------------------------------------------------
\* Ap.get_precision_recall_list
\* ------------------------------------------------------------------------
get_precision_recall_list(tp_list, ground_truth_objects_num) ==
    [precision_list |-> [i \in 1..Len(tp_list) |-> FDiv(float(tp_list[i]), i)],
     recall_list |-> [i \in 1..Len(tp_list) |->
                         IF ground_truth_objects_num > 0
                         THEN FDiv(float(tp_list[i]), ground_truth_objects_num)
                         ELSE FZero]]

\* ------------------------------------------------------------------------
\* Ap._calculate_ap
\* ------------------------------------------------------------------------
\* the walk with its comparison turned round: a sample is kept when its
\* precision is below the last kept one
RECURSIVE max_precision_walk_below(_, _, _, _)
max_precision_walk_below(precision_list, recall_list, env, i) ==
    IF i < 1 THEN env
    ELSE IF FGt(env.max_precision_list[Len(env.max_precision_list)], precision_list[i])
         THEN max_precision_walk_below(
                  precision_list, recall_list,
                  [max_precision_list |->
                       Append(env.max_precision_list, precision_list[i]),
                   max_precision_recall_list |->
                       Append(env.max_precision_recall_list, recall_list[i])],
                  i - 1)
         ELSE max_precision_walk_below(precision_list, recall_list, env, i - 1)

\* the loop "for i in reversed(range(len(recall_list) - 1))", at Python
\* index i - 1; env holds max_precision_list and max_precision_recall_list
RECURSIVE max_precision_walk(_, _, _, _)
max_precision_walk(precision_list, recall_list, env, i) ==
    IF i < 1 THEN env
    ELSE IF FGt(precision_list[i], env.max_precision_list[Len(env.max_precision_list)])
         THEN max_precision_walk(
                  precision_list, recall_list,
                  [max_precision_list |->
                       Append(env.max_precision_list, precision_list[i]),
                   max_precision_recall_list |->
                       Append(env.max_precision_recall_list, recall_list[i])],
                  i - 1)
         ELSE max_precision_walk(precision_list, recall_list, env, i - 1)

\* the walk that keeps every sample, whether or not it raises the maximum
RECURSIVE every_sample_walk(_, _, _, _)
every_sample_walk(precision_list, recall_list, env, i) ==
    IF i < 1 THEN env
    ELSE every_sample_walk(
             precision_list, recall_list,
             [max_precision_list |->
                  Append(env.max_precision_list, precision_list[i]),
              max_precision_recall_list |->
                  Append(env.max_precision_recall_list, recall_list[i])],
             i - 1)

\* "append min recall"
append_min_recall(env) ==
    [max_precision_list |->
         Append(env.max_precision_list,
                env.max_precision_list[Len(env.max_precision_list)]),
     max_precision_recall_list |-> Append(env.max_precision_recall_list, FZero)]

\* the loop "for i in range(len(max_precision_list) - 1)"
RECURSIVE ap_sum(_, _, _)
ap_sum(env, i, ap) ==
    IF i > Len(env.max_precision_list) - 1 THEN ap
    ELSE ap_sum(env, i + 1,
                FAdd(ap, FMul(env.max_precision_list[i],
                              FSub(env.max_precision_recall_list[i],
                                   env.max_precision_recall_list[i + 1]))))

\* the envelope before the recall-0 anchor is appended
max_precision_envelope(precision_list, recall_list) ==
    max_precision_walk(
        precision_list, recall_list,
        [max_precision_list |-> <<precision_list[Len(precision_list)]>>,
         max_precision_recall_list |-> <<recall_list[Len(recall_list)]>>],
        Len(recall_list) - 1)

\* the same method without interpolation: every sample is kept
calculate_ap_uninterpolated(precision_list, recall_list) ==
    IF Len(precision_list) = 0 THEN FZero
    ELSE ap_sum(append_min_recall(
                    every_sample_walk(
                        precision_list, recall_list,
                        [max_precision_list |->
                             <<precision_list[Len(precision_list)]>>,
                         max_precision_recall_list |->
                             <<recall_list[Len(recall_list)]>>],
                        Len(recall_list) - 1)),
                1, FZero)

calculate_ap(precision_list, recall_list) ==
    IF Len(precision_list) = 0 THEN FZero
    ELSE ap_sum(append_min_recall(
                    max_precision_envelope(precision_list, recall_list)),
                1, FZero)

\* ------------------------------------------------------------------------
\* Ap.__init__, from the results of the two filters on
\* ------------------------------------------------------------------------
\* The attributes of the object under construction, given what
\* _calculate_tp_fp (tpfp) and get_precision_recall_list (pr) returned.
\* raised: the constructor ended in an exception and no Ap object exists.
ApAttributes(target_labels, matching_mode, matching_threshold, ground_truth_objects_num, tpfp, pr) ==
    [raised |-> tpfp.raised,
     warned |-> tpfp.warned,
     target_labels |-> target_labels,
     matching_mode |-> matching_mode,
     matching_threshold |-> matching_threshold,
     ground_truth_objects_num |-> ground_truth_objects_num,
     tp_list |-> tpfp.tp_list,
     fp_list |-> tpfp.fp_list,
     precision_list |-> pr.precision_list,
     recall_list |-> pr.recall_list,
     ap |-> IF tpfp.raised THEN FZero
            ELSE calculate_ap(pr.precision_list, pr.recall_list)]

\* Each intermediate result is bound once, as the element of a one-element
\* set, and the object is the one element of the resulting set.
ApScore(target_labels, matching_mode, matching_threshold, filtered_object_results, ground_truth_objects_num) ==
    CHOOSE self \in
        UNION {{ApAttributes(target_labels, matching_mode, matching_threshold,
                             ground_truth_objects_num, tpfp, pr) :
                   pr \in {get_precision_recall_list(tpfp.tp_list,
                                                     ground_truth_objects_num)}} :
               tpfp \in {calculate_tp_fp(filtered_object_results,
                                         ground_truth_objects_num)}} : TRUE

\* ------------------------------------------------------------------------
\* The frame data Map and MetricsScore are given, and the two filters
\* ------------------------------------------------------------------------
Labels == {"car", "pedestrian"}
MatchingModes == {"center_distance", "iou_3d", "plane_distance"}
Scores == {1, 2}
Thresholds == {1, 2}

\* One predicted object with its match: the predicted label, the
\* label-correctness flag and the match score.
MatchRecord == [label : Labels, is_label_correct : BOOLEAN, match_score : Scores]

\* a ground-truth object, by its label
GroundTruthObject == Labels

Range(f) == {f[i] : i \in DOMAIN f}

\* distance-like modes match at or below the threshold, the overlap-like mode
\* at or above it
passes_threshold(object_result, matching_mode, matching_threshold) ==
    IF matching_mode = "iou_3d"
    THEN object_result.match_score >= matching_threshold
    ELSE object_result.match_score <= matching_threshold

filter_tp_objects(object_results, target_labels, matching_mode, matching_threshold) ==
    SelectSeq(object_results,
              LAMBDA r : /\ r.label \in Range(target_labels)
                         /\ passes_threshold(r, matching_mode, matching_threshold))

filter_ground_truth_objects(objects, target_labels) ==
    SelectSeq(objects, LAMBDA o : o \in Range(target_labels))

\* Ap.__init__
ApNew(object_results, ground_truth_objects, target_labels, matching_mode, matching_threshold) ==
    ApScore(target_labels, matching_mode, matching_threshold,
            filter_tp_objects(object_results, target_labels, matching_mode,
                              matching_threshold),
            Len(filter_ground_truth_objects(ground_truth_objects, target_labels)))

\* ------------------------------------------------------------------------
\* Map.__init__
\* ------------------------------------------------------------------------
MapConfig(target_labels, matching_mode, matching_threshold) ==
    [target_labels |-> target_labels,
     matching_mode |-> matching_mode,
     matching_threshold |-> matching_threshold]

NoMapConfig == MapConfig(<<>>, "none", 0)

\* the loop "for ap in self.aps: sum_ap += ap.ap"
RECURSIVE sum_ap_loop(_, _, _)
sum_ap_loop(aps, i, sum_ap) ==
    IF i > Len(aps) THEN sum_ap
    ELSE sum_ap_loop(aps, i + 1, FAdd(sum_ap, aps[i].ap))

\* the loop "for target_label in self.map_config.target_labels", from its
\* i-th label on.  A raising Ap constructor ends the loop.
RECURSIVE ap_loop(_, _, _, _, _, _, _)
ap_loop(aps, object_results, ground_truth_objects, target_labels, matching_mode, matching_threshold, i) ==
    IF i > Len(target_labels) THEN [raised |-> FALSE, aps |-> aps]
    ELSE CHOOSE out \in
             {IF ap_.raised THEN [raised |-> TRUE, aps |-> aps]
              ELSE ap_loop(Append(aps, ap_), object_results,
                           ground_truth_objects, target_labels, matching_mode,
                           matching_threshold, i + 1) :
                 ap_ \in {ApNew(object_results, ground_truth_objects,
                                <<target_labels[i]>>, matching_mode,
                                matching_threshold)}} : TRUE

\* The Map object the constructor leaves.
\* raised: an Ap constructor raised, so no Map object exists.
\* has_attrs: map_config, aps and map were assigned; after the early return
\* for an empty label list the object has none of the three attributes.
MapNew(object_results, ground_truth_objects, target_labels, matching_mode, matching_threshold) ==
    IF Len(target_labels) = 0
    THEN [raised |-> FALSE, warned |-> TRUE, has_attrs |-> FALSE,
          map_config |-> NoMapConfig, aps |-> <<>>, map |-> FZero]
    ELSE CHOOSE self \in
             {IF built.raised
              THEN [raised |-> TRUE, warned |-> FALSE, has_attrs |-> FALSE,
                    map_config |-> NoMapConfig, aps |-> <<>>, map |-> FZero]
              ELSE [raised |-> FALSE, warned |-> FALSE, has_attrs |-> TRUE,
                    map_config |-> MapConfig(target_labels, matching_mode,
                                             matching_threshold),
                    aps |-> built.aps,
                    map |-> FDiv(sum_ap_loop(built.aps, 1, FZero),
                                 Len(target_labels))] :
                 built \in {ap_loop(<<>>, object_results, ground_truth_objects,
                                    target_labels, matching_mode,
                                    matching_threshold, 1)}} : TRUE

NoMap ==
    [raised |-> FALSE, warned |-> FALSE, has_attrs |-> FALSE,
     map_config |-> NoMapConfig, aps |-> <<>>, map |-> FZero]

\* ------------------------------------------------------------------------
\* MetricsScore
\* ------------------------------------------------------------------------
\* A threshold list of the configuration: None, or a list.
NoneList == [is_none |-> TRUE, items |-> <<>>]
ListOf(items) == [is_none |-> FALSE, items |-> items]
ThresholdLists == {NoneList, ListOf(<<>>), ListOf(<<1>>), ListOf(<<2, 1>>)}

\* Python truth value of a configured list
Truthy(list) == ~list.is_none /\ Len(list.items) > 0

MetricsScoreConfig ==
    [target_labels : SeqUpTo(Labels, MaxLabels),
     map_thresholds_center_distance : ThresholdLists,
     map_thresholds_iou : ThresholdLists,
     map_thresholds_plane_distance : ThresholdLists]

\* One "for threshold in thresholds: self.maps.append(Map(...))" loop, from
\* its i-th threshold on.  A raising Map constructor ends the loop and leaves
\* the maps appended so far.
RECURSIVE map_loop(_, _, _, _, _, _, _)
map_loop(maps, object_results, ground_truth_objects, target_labels, matching_mode, thresholds, i) ==
    IF i > Len(thresholds) THEN [raised |-> FALSE, maps |-> maps]
    ELSE CHOOSE out \in
             {IF map_.raised THEN [raised |-> TRUE, maps |-> maps]
              ELSE map_loop(Append(maps, map_), object_results,
                            ground_truth_objects, target_labels, matching_mode,
                            thresholds, i + 1) :
                 map_ \in {MapNew(object_results, ground_truth_objects,
                                  target_labels, matching_mode,
                                  thresholds[i])}} : TRUE

\* One "if guard: for threshold in thresholds: ..." block of
\* _evaluation_detection, entered with the outcome so far.  Iterating None is
\* a TypeError.
threshold_block(so_far, guard, thresholds, matching_mode, target_labels, object_results, ground_truth_objects) ==
    IF so_far.raised THEN so_far
    ELSE IF ~Truthy(guard) THEN so_far
    ELSE IF thresholds.is_none THEN [raised |-> TRUE, maps |-> so_far.maps]
    ELSE map_loop(so_far.maps, object_results, ground_truth_objects,
                  target_labels, matching_mode, thresholds.items, 1)

\* the same method emptying self.maps before it appends
evaluation_detection_clearing(config, maps, object_results, ground_truth_objects) ==
    CHOOSE out \in
        {threshold_block(iou, config.map_thresholds_center_distance,
                         config.map_thresholds_plane_distance, "plane_distance",
                         config.target_labels, object_results,
                         ground_truth_objects) :
            iou \in
                {threshold_block(center, config.map_thresholds_iou,
                                 config.map_thresholds_iou, "iou_3d",
                                 config.target_labels, object_results,
                                 ground_truth_objects) :
                    center \in
                        {threshold_block([raised |-> FALSE, maps |-> <<>>],
                                         config.map_thresholds_center_distance,
                                         config.map_thresholds_center_distance,
                                         "center_distance", config.target_labels,
                                         object_results, ground_truth_objects)}}} :
        TRUE

\* MetricsScore._evaluation_detection: the center-distance block, then the IoU
\* block, then the plane-distance block, which is guarded by
\* map_thresholds_center_distance and iterates map_thresholds_plane_distance.
evaluation_detection(config, maps, object_results, ground_truth_objects) ==
    CHOOSE out \in
        {threshold_block(iou, config.map_thresholds_center_distance,
                         config.map_thresholds_plane_distance, "plane_distance",
                         config.target_labels, object_results,
                         ground_truth_objects) :
            iou \in
                {threshold_block(center, config.map_thresholds_iou,
                                 config.map_thresholds_iou, "iou_3d",
                                 config.target_labels, object_results,
                                 ground_truth_objects) :
                    center \in
                        {threshold_block([raised |-> FALSE, maps |-> maps],
                                         config.map_thresholds_center_distance,
                                         config.map_thresholds_center_distance,
                                         "center_distance", config.target_labels,
                                         object_results, ground_truth_objects)}}} :
        TRUE

\* MetricsScore.__str__: TRUE when the walk over self.maps raises.  Reading
\* map_.map_config of a Map without attributes is an AttributeError.
str_raises(maps) == \E i \in 1..Len(maps) : ~maps[i].has_attrs

\* the loop "for ap_ in map_.aps: object_num += ap_.ground_truth_objects_num"
RECURSIVE object_num_loop(_, _, _)
object_num_loop(aps, i, object_num) ==
    IF i > Len(aps) THEN object_num
    ELSE object_num_loop(aps, i + 1, object_num + aps[i].ground_truth_objects_num)

\* MetricsScore.__str__ when it does not raise: the lines after the leading
\* newline, one per element of self.maps, each by the values it prints
str_lines(maps) ==
    [i \in 1..Len(maps) |->
        [matching_mode |-> maps[i].map_config.matching_mode,
         matching_threshold |-> maps[i].map_config.matching_threshold,
         map |-> maps[i].map,
         object_num |-> object_num_loop(maps[i].aps, 1, 0),
         aps |-> [j \in 1..Len(maps[i].aps) |->
                     [target_str |-> maps[i].aps[j].target_labels,
                      ap |-> maps[i].aps[j].ap]]]]

\* ------------------------------------------------------------------------
\* PassFailResult
\* ------------------------------------------------------------------------
\* The ground-truth objects of a frame; two objects are equal when their
\* attributes are.
PfGroundTruth == {[uuid |-> 1, label |-> "car"], [uuid |-> 2, label |-> "pedestrian"]}

\* ground_truth_object = None of an object result without a match
NoGroundTruth == [uuid |-> 0, label |-> "none"]

\* An object result as the classifier reads it: the matched ground-truth
\* object, or None, and the label-correctness flag.
PfObjectResult ==
    {r \in [ground_truth_object : PfGroundTruth \cup {NoGroundTruth},
            is_label_correct : BOOLEAN] :
        r.ground_truth_object = NoGroundTruth => ~r.is_label_correct}

\* lists of distinct elements of S
DistinctSeqs(S) ==
    {q \in SeqUpTo(S, Cardinality(S)) : \A i, j \in DOMAIN q : q[i] = q[j] => i = j}

PassFailConfig ==
    [leave_only_critical_fp : BOOLEAN,
     \* critical_object_filter_config.filtering_params
     critical_labels : SUBSET Labels]

\* filter_objects with the critical object filter's parameters
filter_objects(objects, filtering_params) ==
    SelectSeq(objects, LAMBDA o : o.label \in filtering_params)

\* divide_tp_fp_objects: an object result is TP iff its label-correctness
\* flag is true
divide_tp_fp_objects(object_results) ==
    [tp |-> SelectSeq(object_results, LAMBDA r : r.is_label_correct),
     fp |-> SelectSeq(object_results, LAMBDA r : ~r.is_label_correct)]

\* get_fn_objects: the ground-truth objects that no TP object result matched
get_fn_objects(ground_truth_objects, object_results, tp_object_results) ==
    SelectSeq(ground_truth_objects,
              LAMBDA o : \A i \in 1..Len(tp_object_results) :
                            tp_object_results[i].ground_truth_object # o)

\* the loop over fp_object_results of get_tp_fp_object_results, from its
\* i-th element on
RECURSIVE fp_critical_loop(_, _, _, _)
fp_critical_loop(fp_object_results, critical_ground_truth_objects, kept, i) ==
    IF i > Len(fp_object_results) THEN kept
    ELSE IF /\ ~critical_ground_truth_objects.is_none
            /\ fp_object_results[i].ground_truth_object
                   \in Range(critical_ground_truth_objects.items)
         THEN fp_critical_loop(fp_object_results, critical_ground_truth_objects,
                               Append(kept, fp_object_results[i]), i + 1)
         ELSE fp_critical_loop(fp_object_results, critical_ground_truth_objects,
                               kept, i + 1)

\* the same method with the leave_only_critical_fp test inverted
get_tp_fp_object_results_inverted(config, object_results, critical_ground_truth_objects) ==
    LET divided == divide_tp_fp_objects(object_results)
    IN  IF config.leave_only_critical_fp
        THEN [tp |-> divided.tp, fp |-> divided.fp]
        ELSE [tp |-> divided.tp,
              fp |-> fp_critical_loop(divided.fp, critical_ground_truth_objects,
                                      <<>>, 1)]

\* PassFailResult.get_tp_fp_object_results; critical_ground_truth_objects is
\* None or a list
get_tp_fp_object_results(config, object_results, critical_ground_truth_objects) ==
    LET divided == divide_tp_fp_objects(object_results)
    IN  IF ~config.leave_only_critical_fp
        THEN [tp |-> divided.tp, fp |-> divided.fp]
        ELSE [tp |-> divided.tp,
              fp |-> fp_critical_loop(divided.fp, critical_ground_truth_objects,
                                      <<>>, 1)]

\* PassFailResult.__init__
PassFailNew ==
    [critical_ground_truth_objects |-> <<>>,
     fn_objects |-> <<>>,
     fp_object_results |-> <<>>,
     tp_object_results |-> <<>>]

\* the same method appending the frame's FP object results to the list the
\* instance already holds
pf_evaluate_accumulating(self, config, object_results, ros_critical_ground_truth_objects) ==
    LET critical == filter_objects(ros_critical_ground_truth_objects,
                                   config.critical_labels)
        tp_fp == get_tp_fp_object_results(config, object_results, ListOf(critical))
    IN  [critical_ground_truth_objects |-> critical,
         tp_object_results |-> tp_fp.tp,
         fp_object_results |-> self.fp_object_results \o tp_fp.fp,
         fn_objects |-> get_fn_objects(critical, object_results, tp_fp.tp)]

\* PassFailResult.evaluate on the instance self
pf_evaluate(self, config, object_results, ros_critical_ground_truth_objects) ==
    LET critical == filter_objects(ros_critical_ground_truth_objects,
                                   config.critical_labels)
        tp_fp == get_tp_fp_object_results(config, object_results, ListOf(critical))
    IN  [self EXCEPT
            !.critical_ground_truth_objects = critical,
            !.tp_object_results = tp_fp.tp,
            !.fp_object_results = tp_fp.fp,
            !.fn_objects = get_fn_objects(critical, object_results, tp_fp.tp)]

\* PassFailResult.get_fail_object_num
get_fail_object_num(self) == Len(self.fn_objects) + Len(self.fp_object_results)

\* no Ap object: the value of ap_self before construction
NoAp ==
    [raised |-> FALSE, warned |-> FALSE, target_labels |-> <<>>,
     matching_mode |-> "none", matching_threshold |-> 0,
     ground_truth_objects_num |-> 0, tp_list |-> <<>>, fp_list |-> <<>>,
     precision_list |-> <<>>, recall_list |-> <<>>, ap |-> FZero]

VARIABLES
    ap_pc,      \* "new" before Ap.__init__ has run, "done" after it
    ap_in,      \* the filter results that construction scored
    ap_self,    \* the Ap object that construction left
    map_pc,     \* "new" before Map.__init__ has run, "done" after it
    map_in,     \* the arguments of that construction
    map_self,   \* the Map object that construction left
    ms_config,  \* MetricsScore.config
    ms_maps,    \* MetricsScore.maps
    ms_pc,      \* "ready", or "raised" once evaluate has raised
    ms_calls,   \* the number of evaluate calls so far
    ms_str,     \* the outcome of __str__ since the last evaluate call:
                \* "none", "ok" or "raised"
    ms_summary, \* the lines __str__ returned when ms_str is "ok"
    ms_per_call, \* for each evaluate call so far, the maps the same call
                \* leaves in a MetricsScore whose maps list is empty
    pf_config,  \* the two configurations of a PassFailResult
    pf_self,    \* the four result attributes of the PassFailResult
    pf_last,    \* the arguments of the last evaluate call, whether there
                \* was one, and whether the instance held results of an
                \* earlier call when it was made
    pf_ret,     \* the last direct get_tp_fp_object_results call: its
                \* arguments, what divide_tp_fp_objects gave and its result
    ord_pc,     \* "new", "first" once the first of two Ap objects is
                \* constructed, "done" once the second is
    ord_in,     \* the two record orders and the ground-truth count
    ord_first,  \* the Ap object constructed from the first order
    ord_second  \* the Ap object constructed from the second order

vars == <<ap_pc, ap_in, ap_self, map_pc, map_in, map_self,
          ms_config, ms_maps, ms_pc, ms_calls, ms_str, ms_summary, ms_per_call,
          pf_config, pf_self, pf_last, pf_ret,
          ord_pc, ord_in, ord_first, ord_second>>
ord_vars == <<ord_pc, ord_in, ord_first, ord_second>>
pf_vars == <<pf_config, pf_self, pf_last, pf_ret>>
ap_vars == <<ap_pc, ap_in, ap_self>>
map_vars == <<map_pc, map_in, map_self>>
ms_vars == <<ms_config, ms_maps, ms_pc, ms_calls, ms_str, ms_summary, ms_per_call>>

NoMetricsScoreConfig ==
    [target_labels |-> <<>>,
     map_thresholds_center_distance |-> NoneList,
     map_thresholds_iou |-> NoneList,
     map_thresholds_plane_distance |-> NoneList]

\* the components a specification does not exercise stay as they start
ApIdle ==
    /\ ap_pc = "idle"
    /\ ap_in = [filtered_object_results |-> <<>>, ground_truth_objects_num |-> 0]
    /\ ap_self = NoAp

MapIdle ==
    /\ map_pc = "idle"
    /\ map_in = [object_results |-> <<>>, ground_truth_objects |-> <<>>,
                 target_labels |-> <<>>, matching_mode |-> "none",
                 matching_threshold |-> 0]
    /\ map_self = NoMap

MsIdle ==
    /\ ms_config = NoMetricsScoreConfig
    /\ ms_maps = <<>>
    /\ ms_pc = "idle"
    /\ ms_calls = 0
    /\ ms_str = "none"
    /\ ms_summary = <<>>
    /\ ms_per_call = <<>>

NoPfLast ==
    [called |-> FALSE, had_results |-> FALSE, object_results |-> <<>>,
     ros_critical_ground_truth_objects |-> <<>>]

NoPfRet ==
    [called |-> FALSE, object_results |-> <<>>,
     critical_ground_truth_objects |-> NoneList,
     raw_tp |-> <<>>, raw_fp |-> <<>>, tp |-> <<>>, fp |-> <<>>]

PfFresh ==
    /\ pf_self = PassFailNew
    /\ pf_last = NoPfLast
    /\ pf_ret = NoPfRet

PfIdle ==
    /\ pf_config = [leave_only_critical_fp |-> FALSE, critical_labels |-> {}]
    /\ PfFresh

NoOrdIn ==
    [first_order |-> <<>>, second_order |-> <<>>, ground_truth_objects_num |-> 0]

OrdIdle ==
    /\ ord_pc = "idle"
    /\ ord_in = NoOrdIn
    /\ ord_first = NoAp
    /\ ord_second = NoAp

\* ---- Ap ----
InitAp ==
    /\ ap_pc = "new"
    /\ ap_in = [filtered_object_results |-> <<>>, ground_truth_objects_num |-> 0]
    /\ ap_self = NoAp
    /\ MapIdle
    /\ MsIdle
    /\ PfIdle
    /\ OrdIdle

\* Ap.__init__ after filter_tp_objects and filter_ground_truth_objects have
\* returned filtered_object_results and a list of ground_truth_objects_num
\* objects
ApInit ==
    /\ ap_pc = "new"
    /\ ap_pc' = "done"
    /\ \E filtered_object_results \in SeqUpTo(ObjectResult, MaxRecords),
          ground_truth_objects_num \in 0..MaxGt :
          /\ ap_in' = [filtered_object_results |-> filtered_object_results,
                       ground_truth_objects_num |-> ground_truth_objects_num]
          /\ ap_self' = ApScore(<<"car">>, "center_distance", 1,
                                filtered_object_results,
                                ground_truth_objects_num)
    /\ UNCHANGED <<map_vars, ms_vars, pf_vars, ord_vars>>

NextAp == ApInit

SpecAp == InitAp /\ [][NextAp]_vars

\* ---- Map ----
InitMap ==
    /\ map_pc = "new"
    /\ map_in = [object_results |-> <<>>, ground_truth_objects |-> <<>>,
                 target_labels |-> <<>>, matching_mode |-> "none",
                 matching_threshold |-> 0]
    /\ map_self = NoMap
    /\ ApIdle
    /\ MsIdle
    /\ PfIdle
    /\ OrdIdle

\* Map.__init__
MapInit ==
    /\ map_pc = "new"
    /\ map_pc' = "done"
    /\ \E object_results \in SeqUpTo(MatchRecord, MaxObj),
          ground_truth_objects \in SeqUpTo(GroundTruthObject, MaxObj),
          target_labels \in SeqUpTo(Labels, MaxLabels),
          matching_mode \in MatchingModes,
          matching_threshold \in Thresholds :
          /\ map_in' = [object_results |-> object_results,
                        ground_truth_objects |-> ground_truth_objects,
                        target_labels |-> target_labels,
                        matching_mode |-> matching_mode,
                        matching_threshold |-> matching_threshold]
          /\ map_self' = MapNew(object_results, ground_truth_objects,
                                target_labels, matching_mode, matching_threshold)
    /\ UNCHANGED <<ap_vars, ms_vars, pf_vars, ord_vars>>

NextMap == MapInit

SpecMap == InitMap /\ [][NextMap]_vars

\* ---- MetricsScore ----
\* MetricsScore.__init__
InitMetrics ==
    /\ ms_config \in MetricsScoreConfig
    /\ ms_maps = <<>>
    /\ ms_pc = "ready"
    /\ ms_calls = 0
    /\ ms_str = "none"
    /\ ms_summary = <<>>
    /\ ms_per_call = <<>>
    /\ ApIdle
    /\ MapIdle
    /\ PfIdle
    /\ OrdIdle

\* MetricsScore.evaluate on a frame of the given object-result lists and
\* ground-truth lists: _evaluation_detection, then the tracking and
\* prediction placeholders, which do nothing
EvaluateFrame(ObjectResultLists, GroundTruthLists) ==
    /\ ms_pc = "ready"
    /\ ms_calls < MaxCalls
    /\ \E object_results \in ObjectResultLists,
          ground_truth_objects \in GroundTruthLists :
          \E out \in {evaluation_detection(ms_config, ms_maps, object_results,
                                           ground_truth_objects)},
             alone \in {evaluation_detection(ms_config, <<>>, object_results,
                                             ground_truth_objects)} :
              /\ ms_maps' = out.maps
              /\ ms_pc' = IF out.raised THEN "raised" ELSE "ready"
              /\ ms_per_call' = Append(ms_per_call, alone.maps)
    /\ ms_calls' = ms_calls + 1
    /\ ms_str' = "none"
    /\ ms_summary' = <<>>
    /\ UNCHANGED <<ms_config, ap_vars, map_vars, pf_vars, ord_vars>>

\* MetricsScore.evaluate
Evaluate ==
    EvaluateFrame(SeqUpTo(MatchRecord, MaxFrameObj),
                  SeqUpTo(GroundTruthObject, MaxFrameObj))

\* MetricsScore.__str__
Str ==
    /\ ms_pc = "ready"
    /\ ms_str = "none"
    /\ ms_str' = IF str_raises(ms_maps) THEN "raised" ELSE "ok"
    /\ ms_summary' = IF str_raises(ms_maps) THEN <<>> ELSE str_lines(ms_maps)
    /\ UNCHANGED <<ms_config, ms_maps, ms_pc, ms_calls, ms_per_call,
                   ap_vars, map_vars, pf_vars, ord_vars>>

NextMetrics == Evaluate \/ Str

SpecMetrics == InitMetrics /\ [][NextMetrics]_vars

\* ---- MetricsScore called frame after frame ----
\* Frames of one label: every object is a car, matched within every threshold.
CarRecord == {r \in MatchRecord : r.label = "car" /\ r.match_score = 1}
CarLabelLists == {<<>>, <<"car">>}

\* MetricsScore.__init__ with no target label or the one label of the frames
InitRepeat ==
    /\ InitMetrics
    /\ ms_config.target_labels \in CarLabelLists

\* the ground truth of a frame of cars: no car or one car
CarGroundTruthLists == {<<>>, <<"car">>}

\* MetricsScore.evaluate on a frame of cars
EvaluateCars ==
    EvaluateFrame(SeqUpTo(CarRecord, MaxFrameObj), CarGroundTruthLists)

NextRepeat == EvaluateCars \/ Str

SpecRepeat == InitRepeat /\ [][NextRepeat]_vars

\* ---- PassFailResult ----
\* PassFailResult.__init__
InitPassFail ==
    /\ pf_config \in PassFailConfig
    /\ PfFresh
    /\ ApIdle
    /\ MapIdle
    /\ MsIdle
    /\ OrdIdle

\* PassFailResult.evaluate
PfEvaluate ==
    /\ \E object_results \in SeqUpTo(PfObjectResult, MaxPfObj),
          ros_critical_ground_truth_objects \in DistinctSeqs(PfGroundTruth) :
          /\ pf_self' = pf_evaluate(pf_self, pf_config, object_results,
                                    ros_critical_ground_truth_objects)
          /\ pf_last' = [called |-> TRUE,
                         had_results |-> pf_self # PassFailNew,
                         object_results |-> object_results,
                         ros_critical_ground_truth_objects |->
                             ros_critical_ground_truth_objects]
    /\ UNCHANGED <<pf_config, pf_ret, ap_vars, map_vars, ms_vars, ord_vars>>

NextPassFail == PfEvaluate

SpecPassFail == InitPassFail /\ [][NextPassFail]_vars

\* PassFailResult.get_tp_fp_object_results, called on its own
PfGetTpFpObjectResults ==
    /\ \E object_results \in SeqUpTo(PfObjectResult, MaxPfObj),
          critical_ground_truth_objects \in
              {NoneList} \cup {ListOf(q) : q \in DistinctSeqs(PfGroundTruth)} :
          LET divided == divide_tp_fp_objects(object_results)
              ret == get_tp_fp_object_results(pf_config, object_results,
                                              critical_ground_truth_objects)
          IN  pf_ret' = [called |-> TRUE, object_results |-> object_results,
                         critical_ground_truth_objects |->
                             critical_ground_truth_objects,
                         raw_tp |-> divided.tp, raw_fp |-> divided.fp,
                         tp |-> ret.tp, fp |-> ret.fp]
    /\ UNCHANGED <<pf_config, pf_self, pf_last, ap_vars, map_vars, ms_vars, ord_vars>>

NextTpFp == PfGetTpFpObjectResults

SpecTpFp == InitPassFail /\ [][NextTpFp]_vars

\* ---- two Ap objects from two orders of the same records ----
Confidences == {1, 2}

\* A filtered object result with the confidence of its predicted object,
\* which Ap never reads.
ScoredObjectResult == [is_label_correct : BOOLEAN, confidence : Confidences]

\* the order the comments of Ap call "ordered by confidence": no record
\* comes before one of higher confidence
ConfidenceDescending(object_results) ==
    \A i, j \in DOMAIN object_results :
        i < j => object_results[i].confidence >= object_results[j].confidence

\* object_results rearranged so that position i holds the record of
\* position p[i]
Rearranged(object_results, p) ==
    [i \in 1..Len(object_results) |-> object_results[p[i]]]

\* the rearrangement p moves only records of equal confidence past each other
KeepsConfidenceOrder(object_results, p) ==
    \A i, j \in DOMAIN object_results :
        (i < j /\ object_results[p[i]].confidence # object_results[p[j]].confidence)
            => p[i] < p[j]

InitOrder ==
    /\ ord_pc = "new"
    /\ ord_in = NoOrdIn
    /\ ord_first = NoAp
    /\ ord_second = NoAp
    /\ ApIdle
    /\ MapIdle
    /\ MsIdle
    /\ PfIdle

\* Ap.__init__ on a confidence-descending list of filtered object results
ApInitFirstOrder ==
    /\ ord_pc = "new"
    /\ ord_pc' = "first"
    /\ \E filtered_object_results \in
              {q \in SeqUpTo(ScoredObjectResult, MaxRecords) : ConfidenceDescending(q)},
          ground_truth_objects_num \in 0..MaxGt :
          /\ ord_in' = [first_order |-> filtered_object_results,
                        second_order |-> <<>>,
                        ground_truth_objects_num |-> ground_truth_objects_num]
          /\ ord_first' = ApScore(<<"car">>, "center_distance", 1,
                                  filtered_object_results,
                                  ground_truth_objects_num)
    /\ UNCHANGED <<ord_second, ap_vars, map_vars, ms_vars, pf_vars>>

\* Ap.__init__ on the same records and ground truth, the records of equal
\* confidence in another order
ApInitSecondOrder ==
    /\ ord_pc = "first"
    /\ ord_pc' = "done"
    /\ \E p \in Permutations(1..Len(ord_in.first_order)) :
          /\ KeepsConfidenceOrder(ord_in.first_order, p)
          /\ ord_in' = [ord_in EXCEPT
                            !.second_order = Rearranged(ord_in.first_order, p)]
          /\ ord_second' = ApScore(<<"car">>, "center_distance", 1,
                                   Rearranged(ord_in.first_order, p),
                                   ord_in.ground_truth_objects_num)
    /\ UNCHANGED <<ord_first, ap_vars, map_vars, ms_vars, pf_vars>>

NextOrder == ApInitFirstOrder \/ ApInitSecondOrder

SpecOrder == InitOrder /\ [][NextOrder]_vars

\* ------------------------------------------------------------------------
\* Properties of one Ap scoring run
\* ------------------------------------------------------------------------
ApDone == ap_pc = "done"
ApFlags == Flags(ap_in.filtered_object_results)
ApRecords == Len(ap_in.filtered_object_results)
\* the number of correct records among the first i
CorrectUpTo(flags, i) == Cardinality({j \in 1..i : flags[j]})

\* the largest rational of a non-empty finite set
RMaxOf(S) == CHOOSE x \in S : \A y \in S : RGe(x, y)

\* max{precision[j] : recall[j] >= h}, times the distance from h down to the
\* next lower recall level (or to 0)
Slice(precision_list, recall_list, h) ==
    LET idx == 1..Len(recall_list)
        levels == {recall_list[j] : j \in idx} \cup {Zero}
        below == RMaxOf({l \in levels : RGt(h, l)})
        best == RMaxOf({precision_list[j] : j \in {k \in idx : RGe(recall_list[k], h)}})
    IN  RMul(best, RSub(h, below))

RECURSIVE SliceSum(_, _, _)
SliceSum(precision_list, recall_list, levels) ==
    IF levels = {} THEN Zero
    ELSE LET h == CHOOSE y \in levels : TRUE
         IN  RAdd(Slice(precision_list, recall_list, h),
                  SliceSum(precision_list, recall_list, levels \ {h}))

\* The integral over r in (0, recall[last]] of max{precision[j] : recall[j] >= r}.
\* The integrand is constant between two neighbouring recall levels, so the
\* integral is a sum over the positive recall levels.
InterpolatedArea(precision_list, recall_list) ==
    SliceSum(precision_list, recall_list,
             {recall_list[j] : j \in 1..Len(recall_list)} \ {Zero})

Scenario1Flags == <<TRUE, FALSE, TRUE, TRUE>>

\* the exact precision tp[i] / (i + 1) and recall tp[i] / G of a tp list
ExactPrecision(tp_list) == [i \in 1..Len(tp_list) |-> Frac(tp_list[i], i)]

ExactRecall(tp_list, ground_truth_objects_num) ==
    [i \in 1..Len(tp_list) |->
        IF ground_truth_objects_num > 0
        THEN Frac(tp_list[i], ground_truth_objects_num)
        ELSE Zero]

\* The float f is within 2^-40 (less than 1e-12) of the rational r >= 0:
\* with f = (+-)m * 2^e and r = p / q, and u = max(-e, 0),
\* |m * 2^(e + u) * q -+ p * 2^u| * 2^40 <= q * 2^u.
WithinRounding(f, r) ==
    LET u == IF f.e < 0 THEN -f.e ELSE 0
        x == BMul(BShl(f.m, f.e + u), BFromInt(r[2]))
        y == BShl(BFromInt(r[1]), u)
        d == IF f.neg THEN BAdd(x, y)
             ELSE IF BCmp(x, y) >= 0 THEN BSub(x, y) ELSE BSub(y, x)
    IN  BCmp(BShl(d, 40), BShl(BFromInt(r[2]), u)) <= 0

\* C1: for every non-empty filtered record list and every ground-truth count,
\* the AP that _calculate_ap returns on the lists of get_precision_recall_list
\* is, to within float rounding (2^-40), the area under the interpolated
\* precision curve, i.e. the integral over r in (0, recall[last]] of
\* max{precision[j] : recall[j] >= r} for the exact precision and recall of
\* the tp list; flags [T,F,T,T] with 4 ground-truth objects give exactly the
\* float 0.625.
C1_ApIsInterpolatedArea ==
    (ApDone /\ ApRecords >= 1) =>
        /\ ~ap_self.raised
        /\ WithinRounding(
               ap_self.ap,
               InterpolatedArea(
                   ExactPrecision(ap_self.tp_list),
                   ExactRecall(ap_self.tp_list, ap_in.ground_truth_objects_num)))
        /\ (ApFlags = Scenario1Flags /\ ap_in.ground_truth_objects_num = 4)
               => ap_self.ap = FDiv(float(5), 8)

C1_Witness ==
    /\ ApDone
    /\ ApFlags = Scenario1Flags
    /\ ap_in.ground_truth_objects_num = 4
    /\ ap_self.precision_list
           = <<float(1), FDiv(float(1), 2), FDiv(float(2), 3), FDiv(float(3), 4)>>
    /\ ap_self.recall_list
           = <<FDiv(float(1), 4), FDiv(float(1), 4), FDiv(float(1), 2),
               FDiv(float(3), 4)>>
    /\ ap_self.ap = FDiv(float(5), 8)

\* C2: for n >= 1 records _calculate_tp_fp returns two lists of length n, in
\* input order, with tp[i] the number of correct records at positions 0..i,
\* fp[i] = (i+1) - tp[i], and tp non-decreasing; flags [T,F,T,T] give
\* tp = [1,1,2,3] and fp = [0,1,1,1].
C2_TpFpAccumulate ==
    (ApDone /\ ApRecords >= 1) =>
        /\ ~ap_self.raised
        /\ Len(ap_self.tp_list) = ApRecords
        /\ Len(ap_self.fp_list) = ApRecords
        /\ \A i \in 1..ApRecords :
              /\ ap_self.tp_list[i] = CorrectUpTo(ApFlags, i)
              /\ ap_self.fp_list[i] = i - ap_self.tp_list[i]
              /\ ap_self.tp_list[i] + ap_self.fp_list[i] = i
              /\ i > 1 => ap_self.tp_list[i - 1] <= ap_self.tp_list[i]
        /\ ApFlags = Scenario1Flags =>
              /\ ap_self.tp_list = <<1, 1, 2, 3>>
              /\ ap_self.fp_list = <<0, 1, 1, 1>>

C2_Witness ==
    /\ ApDone
    /\ ApFlags = Scenario1Flags
    /\ ap_self.tp_list = <<1, 1, 2, 3>>
    /\ ap_self.fp_list = <<0, 1, 1, 1>>

\* C3: for every filtered record list and every ground-truth count G with no
\* more correct records than G, the Ap construction yields an AP with
\* 0 <= AP <= 1.
C3_ApInUnitInterval ==
    (ApDone /\ CorrectUpTo(ApFlags, ApRecords) <= ap_in.ground_truth_objects_num) =>
        /\ ~ap_self.raised
        /\ ~FGt(FZero, ap_self.ap)
        /\ ~FGt(ap_self.ap, float(1))

\* C7: whenever the ground-truth count is 0 the Ap construction completes
\* without raising and yields AP = 0, the empty record list included.
C7_ZeroGroundTruthGivesZeroAp ==
    (ApDone /\ ap_in.ground_truth_objects_num = 0) =>
        /\ ~ap_self.raised
        /\ ap_self.ap = FZero

\* C8: with an empty filtered record list and a nonzero ground-truth count the
\* Ap construction does not raise: tp = [] and fp = [] with only a warning
\* logged, precision and recall lists are empty, and AP = 0.0.
C8_NoRecordsGivesZeroAp ==
    (ApDone /\ ApRecords = 0 /\ ap_in.ground_truth_objects_num # 0) =>
        /\ ~ap_self.raised
        /\ ap_self.warned
        /\ ap_self.tp_list = <<>>
        /\ ap_self.fp_list = <<>>
        /\ ap_self.precision_list = <<>>
        /\ ap_self.recall_list = <<>>
        /\ ap_self.ap = FZero

C8_Witness ==
    /\ ApDone
    /\ ApRecords = 0
    /\ ap_in.ground_truth_objects_num = 5
    /\ ap_self.warned
    /\ ap_self.tp_list = <<>>
    /\ ap_self.ap = FZero

\* the envelope _calculate_ap built for the Ap object, before "append min
\* recall"
ApEnvelope == max_precision_envelope(ap_self.precision_list, ap_self.recall_list)

\* C12 as stated: in the envelope of every non-empty scoring run each appended
\* point has strictly smaller recall than the point before it, and precision
\* never increases as recall increases.
C12_EnvelopeStrictlyDecreasingRecall ==
    (ApDone /\ ApRecords >= 1) =>
        \A k \in 1..(Len(ApEnvelope.max_precision_list) - 1) :
            /\ FGt(ApEnvelope.max_precision_recall_list[k],
                   ApEnvelope.max_precision_recall_list[k + 1])
            /\ ~FGt(ApEnvelope.max_precision_list[k],
                    ApEnvelope.max_precision_list[k + 1])

\* C12 amended: the envelope starts at the last sample, its two lists have
\* the same length, each appended point has recall no greater than the point
\* before it (equal when the samples between share a recall level), and
\* precision never increases as recall increases.
C12_EnvelopeMonotone ==
    (ApDone /\ ApRecords >= 1) =>
        /\ Len(ApEnvelope.max_precision_list) >= 1
        /\ Len(ApEnvelope.max_precision_recall_list)
               = Len(ApEnvelope.max_precision_list)
        /\ ApEnvelope.max_precision_list[1] = ap_self.precision_list[ApRecords]
        /\ ApEnvelope.max_precision_recall_list[1] = ap_self.recall_list[ApRecords]
        /\ \A k \in 1..(Len(ApEnvelope.max_precision_list) - 1) :
              /\ ~FGt(ApEnvelope.max_precision_recall_list[k + 1],
                      ApEnvelope.max_precision_recall_list[k])
              /\ ~FGt(ApEnvelope.max_precision_list[k],
                      ApEnvelope.max_precision_list[k + 1])

\* flags [T,F,T,F] with 2 ground-truth objects: the second envelope point
\* shares recall 1 with the first, the third has recall 1/2
C12_Witness ==
    /\ ApDone
    /\ ApFlags = <<TRUE, FALSE, TRUE, FALSE>>
    /\ ap_in.ground_truth_objects_num = 2
    /\ ApEnvelope.max_precision_list
           = <<FDiv(float(1), 2), FDiv(float(2), 3), float(1)>>
    /\ ApEnvelope.max_precision_recall_list
           = <<float(1), float(1), FDiv(float(1), 2)>>

\* C11: two Ap objects constructed from the same non-empty set of filtered
\* records and the same ground truth, the input orders differing only in the
\* order of records of equal confidence, have the same AP value.
C11_ApInvariantUnderTieOrder ==
    (ord_pc = "done" /\ Len(ord_in.first_order) >= 1) =>
        /\ ~ord_first.raised
        /\ ~ord_second.raised
        /\ ord_first.ap = ord_second.ap

\* ------------------------------------------------------------------------
\* Properties of one Map construction
\* ------------------------------------------------------------------------
MapDone == map_pc = "done"

\* the float sum of the AP values of the first n Ap objects of a list, added
\* to 0.0 in list order
RECURSIVE ApTotal(_, _)
ApTotal(aps, n) ==
    IF n = 0 THEN FZero ELSE FAdd(ApTotal(aps, n - 1), aps[n].ap)

\* C4: for every non-empty target label list Map constructs exactly one Ap per
\* label, in label-list order, each with a one-element target-label set, and
\* Map.map is the sum of the AP values divided by the number of configured
\* labels; a label with zero ground truth is counted in the divisor and
\* contributes AP = 0.
C4_MapIsMeanOverLabels ==
    (MapDone /\ Len(map_in.target_labels) >= 1) =>
        /\ ~map_self.raised
        /\ map_self.has_attrs
        /\ Len(map_self.aps) = Len(map_in.target_labels)
        /\ \A i \in 1..Len(map_self.aps) :
              /\ map_self.aps[i].target_labels = <<map_in.target_labels[i]>>
              /\ map_self.aps[i].ground_truth_objects_num = 0
                     => map_self.aps[i].ap = FZero
        /\ map_self.map
               = FDiv(ApTotal(map_self.aps, Len(map_self.aps)),
                      Len(map_in.target_labels))

\* ------------------------------------------------------------------------
\* Properties of MetricsScore
\* ------------------------------------------------------------------------
Items(list) == IF list.is_none THEN <<>> ELSE list.items

\* the (mode, threshold) pairs of a configuration: center-distance thresholds
\* first, then IoU thresholds, then plane-distance thresholds
ConfiguredPairs(config) ==
    [i \in 1..Len(Items(config.map_thresholds_center_distance)) |->
        <<"center_distance", Items(config.map_thresholds_center_distance)[i]>>]
    \o [i \in 1..Len(Items(config.map_thresholds_iou)) |->
        <<"iou_3d", Items(config.map_thresholds_iou)[i]>>]
    \o [i \in 1..Len(Items(config.map_thresholds_plane_distance)) |->
        <<"plane_distance", Items(config.map_thresholds_plane_distance)[i]>>]

\* maps holds one Map per pair of pairs, in that order
HoldsOneMapPerPair(maps, pairs) ==
    /\ Len(maps) = Len(pairs)
    /\ \A i \in 1..Len(maps) :
          maps[i].has_attrs =>
              /\ maps[i].map_config.matching_mode = pairs[i][1]
              /\ maps[i].map_config.matching_threshold = pairs[i][2]

\* C5: one evaluate call on a fresh MetricsScore that completes leaves
\* self.maps holding exactly one Map per configured (mode, threshold) pair,
\* center-distance thresholds first, then IoU, then plane-distance, each in
\* configured order; plane-distance thresholds are scored whenever they are
\* configured, whether or not center-distance thresholds are.
C5_OneMapPerConfiguredPair ==
    (ms_calls = 1 /\ ms_pc = "ready") =>
        HoldsOneMapPerPair(ms_maps, ConfiguredPairs(ms_config))

\* C9: with an empty target label list every Map construction short-circuits
\* and leaves no AP results, and the summary walk over the collected maps
\* (__str__) that follows evaluate completes without raising.
C9_EmptyLabelsNotFatal ==
    (Len(ms_config.target_labels) = 0 /\ ms_str # "none") =>
        /\ \A i \in 1..Len(ms_maps) : ms_maps[i].aps = <<>>
        /\ ms_str = "ok"

\* the lists of a list of lists, joined in order
RECURSIVE Concatenated(_)
Concatenated(lists) ==
    IF lists = <<>> THEN <<>> ELSE Head(lists) \o Concatenated(Tail(lists))

\* C13: after k evaluate calls on one MetricsScore, self.maps is the
\* concatenation, in call order, of the k lists each call produces on its own
\* (so no call removes or changes an entry of an earlier call); when all k
\* calls completed each contributed the same number of maps and the length is
\* k times that number; and the summary has one line per element of
\* self.maps, those of earlier calls included, each reporting that element.
C13_MapsAccumulate ==
    /\ Len(ms_per_call) = ms_calls
    /\ ms_maps = Concatenated(ms_per_call)
    /\ (ms_pc = "ready" /\ ms_calls >= 1) =>
           /\ \A k \in 1..ms_calls : Len(ms_per_call[k]) = Len(ms_per_call[1])
           /\ Len(ms_maps) = ms_calls * Len(ms_per_call[1])
    /\ ms_str = "ok" =>
           /\ Len(ms_summary) = Len(ms_maps)
           /\ \A i \in 1..Len(ms_maps) :
                 /\ ms_summary[i].matching_mode = ms_maps[i].map_config.matching_mode
                 /\ ms_summary[i].matching_threshold
                        = ms_maps[i].map_config.matching_threshold
                 /\ ms_summary[i].map = ms_maps[i].map

\* two completed calls of two maps each, and a summary of four lines
C13_Witness ==
    /\ ms_calls = 2
    /\ ms_pc = "ready"
    /\ Len(ms_per_call[1]) = 2
    /\ Len(ms_maps) = 4
    /\ ms_per_call[1] # ms_per_call[2]
    /\ SubSeq(ms_maps, 1, 2) = ms_per_call[1]
    /\ ms_str = "ok"
    /\ Len(ms_summary) = 4

\* ------------------------------------------------------------------------
\* Properties of PassFailResult
\* ------------------------------------------------------------------------
\* the positions of raw_fp whose matched ground truth is in the critical list
CriticalPositions(raw_fp, critical_ground_truth_objects) ==
    {i \in 1..Len(raw_fp) :
        \E k \in 1..Len(Items(critical_ground_truth_objects)) :
            Items(critical_ground_truth_objects)[k] = raw_fp[i].ground_truth_object}

\* kept is raw restricted to the positions K, in the original order
IsRestriction(kept, raw, K) ==
    /\ Len(kept) = Cardinality(K)
    /\ \A i \in K : kept[Cardinality({j \in K : j <= i})] = raw[i]

\* C6: get_tp_fp_object_results returns the TP list of divide_tp_fp_objects;
\* without leave_only_critical_fp the raw FP list; with it the raw FP records,
\* in their original order, whose matched ground truth is in the critical
\* list: FP records without a matched ground truth are dropped, and a None or
\* empty critical list leaves no FP.
C6_CriticalFpRestriction ==
    pf_ret.called =>
        /\ pf_ret.tp = pf_ret.raw_tp
        /\ ~pf_config.leave_only_critical_fp => pf_ret.fp = pf_ret.raw_fp
        /\ pf_config.leave_only_critical_fp =>
              /\ IsRestriction(pf_ret.fp, pf_ret.raw_fp,
                               CriticalPositions(pf_ret.raw_fp,
                                                 pf_ret.critical_ground_truth_objects))
              /\ \A i \in 1..Len(pf_ret.fp) :
                    pf_ret.fp[i].ground_truth_object # NoGroundTruth
              /\ (\/ pf_ret.critical_ground_truth_objects.is_none
                  \/ pf_ret.critical_ground_truth_objects.items = <<>>)
                     => pf_ret.fp = <<>>

C6_Witness ==
    /\ pf_ret.called
    /\ pf_config.leave_only_critical_fp
    /\ Len(pf_ret.raw_fp) = 2
    /\ pf_ret.raw_fp[1].ground_truth_object = NoGroundTruth
    /\ pf_ret.raw_fp[2].ground_truth_object
           \in Range(pf_ret.critical_ground_truth_objects.items)
    /\ pf_ret.fp = <<pf_ret.raw_fp[2]>>

\* C10: after any sequence of evaluate calls the four result attributes are
\* what one evaluate call on a fresh instance with the last call's arguments
\* produces, and get_fail_object_num is |fn_objects| + |fp_object_results| of
\* that call, the FP counted after the critical restriction when it is on.
C10_EvaluateRecomputes ==
    pf_last.called =>
        LET fresh == pf_evaluate(PassFailNew, pf_config, pf_last.object_results,
                                 pf_last.ros_critical_ground_truth_objects)
        IN  /\ pf_self.critical_ground_truth_objects
                   = fresh.critical_ground_truth_objects
            /\ pf_self.tp_object_results = fresh.tp_object_results
            /\ pf_self.fp_object_results = fresh.fp_object_results
            /\ pf_self.fn_objects = fresh.fn_objects
            /\ get_fail_object_num(pf_self)
                   = Len(fresh.fn_objects) + Len(fresh.fp_object_results)
            /\ pf_config.leave_only_critical_fp =>
                   \A i \in 1..Len(pf_self.fp_object_results) :
                       pf_self.fp_object_results[i].ground_truth_object
                           \in Range(pf_self.critical_ground_truth_objects)

C10_Witness ==
    /\ pf_last.called
    /\ pf_last.had_results
    /\ pf_config.leave_only_critical_fp
    /\ Len(SelectSeq(pf_last.object_results, LAMBDA r : ~r.is_label_correct)) = 2
    /\ Len(pf_self.fp_object_results) = 1
    /\ Len(pf_self.fn_objects) = 1
    /\ get_fail_object_num(pf_self) = 2

====
